---- MODULE Spec2Model ----
(***************************************************************************)
(* Mood2Music front end (src/CameraBox.tsx): the CameraBox component and   *)
(* the App component, as a state machine.                                  *)
(*                                                                         *)
(* JavaScript values are tagged records [t, v]; numbers that stand for a   *)
(* confidence are kept in thousandths (0.805 is 805), so that              *)
(* Math.round(c * 100) is a real rounding.                                 *)
(***************************************************************************)
EXTENDS Integers, Sequences, FiniteSets, TLC

(* ------------------------------ bounds --------------------------------- *)

\* analysis operations (text, upload, capture) started in one run
MaxOps == 2
\* start() calls per view in one run
MaxStarts == 2
\* longest list found in the persisted store at load time
MaxStored == 9

(* --------------------------- program constants ------------------------- *)

\* .slice(0, 8)
HistoryCap == 8

(* ------------------------------ JS values ------------------------------ *)

Undefined == [t |-> "undefined", v |-> 0]
Null == [t |-> "null", v |-> 0]
NaN == [t |-> "nan", v |-> 0]
Num(n) == [t |-> "num", v |-> n]
Str(s) == [t |-> "str", v |-> s]
Arr(s) == [t |-> "array", v |-> s]
Obj(m) == [t |-> "object", v |-> m]

\* JavaScript truthiness: undefined, null, NaN, 0 and "" are falsy
Truthy(x) ==
    CASE x.t \in {"undefined", "null", "nan"} -> FALSE
      [] x.t = "num" -> x.v # 0
      [] x.t = "str" -> x.v # ""
      [] OTHER -> TRUE

\* a || b
Or(a, b) == IF Truthy(a) THEN a ELSE b

\* String.prototype.toLowerCase on the labels the model uses
toLowerCase(s) ==
    CASE s = "Happy" -> "happy"
      [] s = "SAD" -> "sad"
      [] OTHER -> s

\* String.prototype.trim on the inputs the model uses
trim(s) == IF s = "  " THEN "" ELSE s

\* Number(x), in thousandths
Number(x) ==
    CASE x.t = "num" -> x
      [] x.t = "nan" -> NaN
      [] x.t = "null" -> Num(0)
      [] x.t = "str" -> IF x.v = "" THEN Num(0)
                        ELSE IF x.v = "0.5" THEN Num(500) ELSE NaN
      [] x.t = "array" -> IF x.v = <<>> THEN Num(0) ELSE NaN
      [] OTHER -> NaN

\* Math.round(c * 100) for c in thousandths: the nearest integer, halves up
RoundPercent(c) == IF c.t = "num" THEN Num((c.v + 5) \div 10) ELSE NaN

\* Math.max(0, Math.min(1, n || 0)), in thousandths
clamp01(n) ==
    LET m == Or(n, Num(0))
    IN  IF m.v > 1000 THEN Num(1000) ELSE IF m.v < 0 THEN Num(0) ELSE m

(* ------------------------------ tables --------------------------------- *)

\* the labels of const EMOJI
EmojiLabels ==
    { "happy", "positive", "excited", "calm", "romantic", "lonely", "motivated",
      "sad", "angry", "fear", "surprise", "disgust", "neutral" }

\* EMOJI[m]: the table's glyph for label m (a glyph is named by its label)
EMOJI(m) == IF m \in EmojiLabels THEN Str("emoji_" \o m) ELSE Undefined

DefaultEmoji == Str("emoji_headphones")

(* --------------------------- server responses -------------------------- *)

Item(title) == [title |-> title, source |-> "spotify"]

\* A parsed response body j: the fields of section 6, each present, absent or
\* wrongly typed.  "whole" is FALSE for a body that parses to null.
Body(m, e, c, p, pr) ==
    [whole |-> TRUE, mood |-> m, emoji |-> e, confidence |-> c,
     playlist |-> p, probs |-> pr]

ErrorBody == Body(Undefined, Undefined, Undefined, Undefined, Undefined)
NullBody == [ErrorBody EXCEPT !.whole = FALSE]

\* the bodies a 2xx answer carries in the model: a regular one, and ones whose
\* confidence is above 1, below 0 or no number, whose fields are absent, null
\* or of another type; the last has a mood that is no string
Bodies ==
    { Body(Str("Happy"), Undefined, Num(805), Arr(<<Item("Relax")>>), Obj("probs")),
      Body(Str("SAD"), Str("emoji_custom"), Num(1500), Undefined, Undefined),
      Body(Str("calm"), Undefined, Num(0 - 500), Str("none"), Null),
      Body(Undefined, Null, Str("abc"), Arr(<<>>), Undefined),
      Body(Num(5), Undefined, Num(500), Undefined, Undefined) }

\* What one request can come to: fetch rejects (transport), res.json() rejects
\* (the body is not JSON), or a body is parsed; res.ok is never read by the code.
Outcomes ==
    { [kind |-> "transport", ok |-> FALSE, j |-> NullBody],
      [kind |-> "unparseable", ok |-> TRUE, j |-> NullBody],
      [kind |-> "json", ok |-> FALSE, j |-> ErrorBody] }
    \cup { [kind |-> "json", ok |-> TRUE, j |-> b] : b \in Bodies }

(* ------------------------------- state --------------------------------- *)

VARIABLES
    mounted,    \* view -> the view is on screen (its refs are set)
    crashed,    \* the App's render raised: nothing of it is on screen
    toast,      \* useState toast
    timers,     \* pending setTimeout(() => setToast(null), 1400)
    loading,    \* useState loading
    mood,       \* useState mood
    emoji,      \* useState emoji
    conf,       \* useState conf, in thousandths
    list,       \* useState list (the playlist)
    probs,      \* useState probs
    history,    \* useState history
    text,       \* useState text
    stored,     \* localStorage["mood_history"]
    ops,        \* the analysis calls in flight, each with its requests
    opCount,    \* analysis calls made so far
    clock,      \* results recorded since load (the entry's "when")
    event,      \* the last step: its handler, and the analysis call it ended
    cam,        \* view -> [streamRef, srcObject, running]: the refs and the flag
    err,        \* CameraBox's useState err
    live,       \* the media streams that have a live track
    calls,      \* the start() calls that are awaiting something
    started     \* view -> start() calls made so far

appState == <<toast, timers, loading, mood, emoji, conf, list, probs, history,
              text, stored, clock>>
results == <<mood, emoji, conf, list, probs>>
camState == <<cam, err, live, calls, started>>
opState == <<ops, opCount>>
vars == <<mounted, crashed, appState, opState, event, camState>>

(* ------------------------- the persisted history ----------------------- *)

\* a history row as an earlier session stored it
StoredRow(i) ==
    [when |-> 0 - i, mood |-> Str("happy"), emoji |-> Str("emoji_happy"),
     confidence |-> Num(500), from |-> "text", title |-> Undefined]

\* a stored row that is no HistoryRow: its mood is missing
BadRow == [StoredRow(1) EXCEPT !.mood = Undefined]

StoredList(n) == [i \in 1..n |-> StoredRow(i)]

Missing == [t |-> "missing", v |-> 0]
NotJSON == [t |-> "text", v |-> 0]
Json(x) == [t |-> "json", v |-> x]

\* what localStorage can hold under the key when the App is constructed
StoredContents ==
    { Missing, NotJSON, Json(Null), Json(Obj("row")), Json(Num(5)), Json(Str("")),
      Json(Arr(<<BadRow>>)) }
    \cup { Json(Arr(StoredList(n))) : n \in 0..MaxStored }

\* JSON.stringify of a row: NaN is written as null, undefined fields are dropped
StringifyRow(r) == [r EXCEPT !.confidence = IF @.t = "nan" THEN Null ELSE @]

\* JSON.stringify(history)
JSONstringify(h) ==
    IF h.t = "array" THEN Json(Arr([i \in 1..Len(h.v) |-> StringifyRow(h.v[i])]))
    ELSE Json(h)

\* try { return JSON.parse(localStorage.getItem("mood_history") || "[]"); }
\* catch { return []; }
LoadHistory(s) ==
    CASE s.t = "missing" -> Arr(<<>>)
      [] s.t = "text" -> Arr(<<>>)
      [] OTHER -> s.v

\* the history render: history.length === 0, else history.map over rows whose
\* mood is upper-cased; FALSE when it raises
RenderHistoryOK(h) ==
    CASE h.t = "array" -> \A i \in 1..Len(h.v) : h.v[i].mood.t = "str"
      [] h.t = "str" -> h.v = ""
      [] OTHER -> FALSE

\* ...h in the setHistory updater
Spread(h) == IF h.t = "array" THEN h.v ELSE <<>>

\* [row, ...h].slice(0, 8)
slice(s, n) == IF Len(s) <= n THEN s ELSE SubSeq(s, 1, n)

\* [row, ...h].slice(0, 8)
Prepend(row, h) == Arr(slice(<<row>> \o Spread(h), HistoryCap))

(* ---------------------------- updateResults --------------------------- *)

\* updateResults raises before it sets anything: j.mood of a null body, or
\* toLowerCase of a mood that is truthy and no string
Throws(j) == ~j.whole \/ (Truthy(j.mood) /\ j.mood.t # "str")

\* const m = (j.mood || "").toLowerCase()
MoodOf(j) == toLowerCase(Or(j.mood, Str("")).v)

\* const e = j.emoji || EMOJI[m] || DEFAULT
EmojiOf(j) == Or(Or(j.emoji, EMOJI(MoodOf(j))), DefaultEmoji)

\* const c = Number(j.confidence || 0)
ConfOf(j) == Number(Or(j.confidence, Num(0)))

\* Array.isArray(j.playlist) ? j.playlist : []
ListOf(j) == IF j.playlist.t = "array" THEN j.playlist.v ELSE <<>>

\* j.playlist?.[0]?.title
TitleOf(j) ==
    IF j.playlist.t = "array" /\ j.playlist.v # <<>>
    THEN Str(j.playlist.v[1].title) ELSE Undefined

\* the row updateResults puts in front of the history
RowOf(j, from, now) ==
    [when |-> now, mood |-> Or(Str(MoodOf(j)), Str("neutral")), emoji |-> EmojiOf(j),
     confidence |-> ConfOf(j), from |-> from, title |-> TitleOf(j)]

\* an updateResults that keeps the earlier breakdown when the response has none
updateResultsKeepingProbs(j, from) ==
    /\ mood' = MoodOf(j)
    /\ emoji' = EmojiOf(j)
    /\ conf' = ConfOf(j)
    /\ list' = ListOf(j)
    /\ probs' = Or(j.probs, probs)
    /\ clock' = clock + 1
    /\ history' = Prepend(RowOf(j, from, clock + 1), history)
    /\ stored' = JSONstringify(history')

\* updateResults(j, from), with the persist effect that follows the render
updateResults(j, from) ==
    /\ mood' = MoodOf(j)
    /\ emoji' = EmojiOf(j)
    /\ conf' = ConfOf(j)
    /\ list' = ListOf(j)
    /\ probs' = Or(j.probs, Null)
    /\ clock' = clock + 1
    /\ history' = Prepend(RowOf(j, from, clock + 1), history)
    /\ stored' = JSONstringify(history')

\* showToast(msg)
showToast(msg) ==
    /\ toast' = Str(msg)
    /\ timers' = timers + 1

(* --------------------------- what is rendered -------------------------- *)

\* the percentage of the main result's bar and label
ShownPercent == RoundPercent(conf)

\* the percentage of history row i
RowPercent(i) == RoundPercent(Number(history.v[i].confidence))

\* the result section is rendered
ResultShown == mood # ""

\* the section "Confidence by emotion" is rendered: {probs && (...)} inside
\* the result section
BreakdownShown == ResultShown /\ Truthy(probs)

(* ------------------------------ the views ------------------------------ *)

Views == {"CameraBox", "App"}

NoStream == [view |-> "none", n |-> 0]

\* the stream that start() call n of view c is granted
Stream(c, n) == [view |-> c, n |-> n]

(* --------------------------- analysis: requests ------------------------ *)

Request(url, files) ==
    [url |-> url, files |-> files, kind |-> "pending", ok |-> FALSE, applied |-> FALSE]

\* the request as settled by outcome o
Settled(r, o) ==
    [r EXCEPT !.kind = o.kind, !.ok = o.ok,
              !.applied = (o.kind = "json" /\ ~Throws(o.j))]

\* the frames of one capture: the toBlob results that were not null, in order
FrameLists == { <<>>, <<2>>, <<2, 3>>, <<1, 2, 3>> }

\* the file of an upload
UploadFile == 0

\* what is on screen of the results, and the history
Shown == <<mood, emoji, conf, list, probs, history>>

\* an analysis call: its frames, its position, its requests, and what was on
\* screen when it was made
NewOp(kind, from, frames, pc, reqs) ==
    [kind |-> kind, from |-> from, frames |-> frames, pc |-> pc, reqs |-> reqs,
     before |-> Shown]

\* the op with its last request settled by o and its position moved to pc
Settle(op, o, pc) ==
    [op EXCEPT !.pc = pc, !.reqs[Len(op.reqs)] = Settled(@, o)]

NoOp ==
    [kind |-> "none", from |-> "none", frames |-> <<>>, pc |-> "none", reqs |-> <<>>,
     before |-> <<>>]

\* a step of handler h that ends no analysis call
Ev(h) == [name |-> h, op |-> NoOp]

\* the step that ends analysis call op
Ended(op) == [name |-> "ended", op |-> op]

\* ops without its i-th call
Without(i) == SubSeq(ops, 1, i - 1) \o SubSeq(ops, i + 1, Len(ops))

\* a try block came to its end with a result: the result is applied
Applies(o) == o.kind = "json" /\ ~Throws(o.j)

(* --------------------------- analysis: handlers ------------------------ *)

\* onChange of the text input: setText(e.target.value)
TypeText(s) ==
    /\ mounted["App"]
    /\ text' = s
    /\ event' = Ev("setText")
    /\ UNCHANGED <<toast, timers, loading, results, history, stored, clock>>
    /\ UNCHANGED <<mounted, crashed, opState, camState>>

\* the guard without the trim
EmptyTextUntrimmed(s) == s = ""

\* if (!text.trim()) return;
EmptyText(s) == trim(s) = ""

\* analyzeText(), from the click to the first await
analyzeText ==
    /\ mounted["App"]
    /\ ~loading
    /\ event' = Ev("analyzeText")
    /\ EmptyText(text) \/ opCount < MaxOps
    /\ IF EmptyText(text)
       THEN UNCHANGED <<ops, opCount, loading>>
       ELSE /\ loading' = TRUE
            /\ opCount' = opCount + 1
            /\ ops' = Append(ops, NewOp("text", "text", <<>>, "text",
                                        <<Request("/api/predict/text", <<>>)>>))
    /\ UNCHANGED <<toast, timers, results, history, text, stored, clock>>
    /\ UNCHANGED <<mounted, crashed, camState>>

\* analyzeImagesBlobs(blobs, from), from the call to the first await
analyzeImagesBlobs(blobs, from) ==
    /\ loading' = IF mounted["App"] THEN TRUE ELSE loading
    /\ UNCHANGED <<toast, timers, results, history, text, stored, clock>>

\* onChange of the file input
Upload(chosen) ==
    /\ mounted["App"]
    /\ ~chosen \/ opCount < MaxOps
    /\ event' = Ev("upload")
    /\ IF ~chosen
       THEN UNCHANGED <<ops, opCount, appState>>
       ELSE /\ analyzeImagesBlobs(<<UploadFile>>, "upload")
            /\ opCount' = opCount + 1
            /\ ops' = Append(ops, NewOp("images", "upload", <<UploadFile>>, "batch",
                             <<Request("/api/predict/images", <<UploadFile>>)>>))
    /\ UNCHANGED <<mounted, crashed, camState>>

\* captureAndAnalyze(), from the click to the first await of the frame loop
captureAndAnalyze(ctx) ==
    /\ mounted["App"]
    /\ cam["App"].running
    /\ ~loading
    /\ ~ctx \/ opCount < MaxOps
    /\ event' = Ev("captureAndAnalyze")
    /\ IF ctx
       THEN /\ ops' = Append(ops, NewOp("images", "camera", <<>>, "frames", <<>>))
            /\ opCount' = opCount + 1
       ELSE UNCHANGED <<ops, opCount>>
    /\ UNCHANGED <<appState, mounted, crashed, camState>>

\* the frame loop has ended: await analyzeImagesBlobs(frames, "camera")
FramesDone(i, frames) ==
    /\ i \in 1..Len(ops)
    /\ ops[i].pc = "frames"
    /\ event' = Ev("callback")
    /\ analyzeImagesBlobs(frames, "camera")
    /\ ops' = [ops EXCEPT ![i] = [@ EXCEPT !.frames = frames, !.pc = "batch",
                  !.reqs = <<Request("/api/predict/images", frames)>>,
                  !.before = Shown]]
    /\ UNCHANGED <<mounted, crashed, opCount, camState>>

\* an end that clears the result on screen when the call failed
FinishClearing(applied, j, from, msg) ==
    IF ~mounted["App"] THEN UNCHANGED appState
    ELSE /\ loading' = FALSE
         /\ UNCHANGED text
         /\ IF applied
            THEN updateResults(j, from) /\ UNCHANGED <<toast, timers>>
            ELSE /\ showToast(msg)
                 /\ mood' = ""
                 /\ UNCHANGED <<emoji, conf, list, probs, history, stored, clock>>

\* the end of an analysis: the result applied or the toast shown, then finally
Finish(applied, j, from, msg) ==
    IF ~mounted["App"] THEN UNCHANGED appState
    ELSE /\ loading' = FALSE
         /\ UNCHANGED text
         /\ IF applied
            THEN updateResults(j, from) /\ UNCHANGED <<toast, timers>>
            ELSE showToast(msg) /\ UNCHANGED <<results, history, stored, clock>>

\* analyzeText: the request to /api/predict/text is settled
TextSettled(i, o) ==
    /\ i \in 1..Len(ops)
    /\ ops[i].pc = "text"
    /\ event' = Ended(Settle(ops[i], o, "done"))
    /\ ops' = Without(i)
    /\ Finish(Applies(o), o.j, "text", "Failed to analyze text")
    /\ UNCHANGED <<mounted, crashed, opCount, camState>>

\* a fallback that sends every frame again
FallbackAllFrames(blobs) == blobs

\* fd2.append("file", blobs[0], "frame0.jpg")
FallbackFiles(blobs) == <<blobs[1]>>

\* the fallback of analyzeImagesBlobs is entered
FallsBack(o) == ~Applies(o)

\* analyzeImagesBlobs: the request to /api/predict/images is settled
BatchSettled(i, o) ==
    /\ i \in 1..Len(ops)
    /\ ops[i].pc = "batch"
    /\ IF FallsBack(o) /\ ops[i].frames # <<>>
       THEN /\ event' = Ev("callback")
            /\ ops' = [ops EXCEPT ![i] =
                         [Settle(@, o, "single") EXCEPT !.reqs =
                            Append(@, Request("/api/predict/image",
                                              FallbackFiles(ops[i].frames)))]]
            /\ UNCHANGED appState
       ELSE /\ event' = Ended(Settle(ops[i], o, "done"))
            /\ ops' = Without(i)
            /\ Finish(Applies(o), o.j, ops[i].from, "Failed to analyze image")
    /\ UNCHANGED <<mounted, crashed, opCount, camState>>

\* analyzeImagesBlobs: the request to /api/predict/image is settled
SingleSettled(i, o) ==
    /\ i \in 1..Len(ops)
    /\ ops[i].pc = "single"
    /\ event' = Ended(Settle(ops[i], o, "done"))
    /\ ops' = Without(i)
    /\ Finish(Applies(o), o.j, ops[i].from, "Failed to analyze image")
    /\ UNCHANGED <<mounted, crashed, opCount, camState>>

\* the timer of showToast: setToast(null)
ToastExpires ==
    /\ timers > 0
    /\ timers' = timers - 1
    /\ toast' = IF mounted["App"] THEN Null ELSE toast
    /\ event' = Ev("callback")
    /\ UNCHANGED <<loading, results, history, text, stored, clock>>
    /\ UNCHANGED <<mounted, crashed, opState, camState>>

(* -------------------------------- camera ------------------------------ *)

\* a stop that drops the ref without stopping the tracks
stopCameraKeepingTracks(s) ==
    [s EXCEPT !.streamRef = NoStream,
              !.srcObject = IF s.hasVideo THEN NoStream ELSE @,
              !.running = FALSE]

\* stopCamera() on the refs and the flag of one view, with the live streams:
\* every track of the held stream is stopped, the ref and the surface cleared
stopCamera(s) ==
    [s EXCEPT !.live = @ \ {s.streamRef},
              !.streamRef = NoStream,
              !.srcObject = IF s.hasVideo THEN NoStream ELSE @,
              !.running = FALSE]

\* what stopCamera() of view c reads and writes
CamOf(c) ==
    [streamRef |-> cam[c].streamRef, srcObject |-> cam[c].srcObject,
     running |-> cam[c].running, live |-> live, hasVideo |-> mounted[c]]

\* the state after stopCamera() of view c
Stopped(c) ==
    LET s == stopCamera(CamOf(c))
    IN  /\ cam' = [cam EXCEPT ![c] = [streamRef |-> s.streamRef,
                                      srcObject |-> s.srcObject,
                                      running |-> s.running]]
        /\ live' = s.live

\* a catch that swallows the error
StartFailedSilently(c) == UNCHANGED <<err, toast, timers>>

\* the catch of startCamera: setErr(...) in CameraBox, showToast(...) in App
StartFailed(c) ==
    IF ~mounted[c] THEN UNCHANGED <<err, toast, timers>>
    ELSE IF c = "CameraBox"
         THEN err' = Str("Camera permission denied or unavailable")
              /\ UNCHANGED <<toast, timers>>
         ELSE showToast("Camera error: permission denied") /\ UNCHANGED err

\* setRunning(true) / setCameraOn(true)
SetRunning(c) == IF mounted[c] THEN [cam EXCEPT ![c].running = TRUE] ELSE cam

appRest == <<loading, results, history, text, stored, clock, opState, crashed>>

\* startCamera(), from the click to await getUserMedia
startCamera(c) ==
    /\ mounted[c]
    /\ ~cam[c].running
    /\ started[c] < MaxStarts
    /\ started' = [started EXCEPT ![c] = @ + 1]
    /\ calls' = calls \cup {[view |-> c, n |-> started[c] + 1, pc |-> "getUserMedia"]}
    /\ err' = IF c = "CameraBox" THEN Null ELSE err
    /\ event' = Ev("startCamera")
    /\ UNCHANGED <<cam, live, mounted, toast, timers, appRest>>

\* getUserMedia resolves with a stream
Granted(call) ==
    /\ call \in calls
    /\ call.pc = "getUserMedia"
    /\ LET c == call.view
           s == Stream(c, call.n)
       IN  /\ live' = live \cup {s}
           /\ IF mounted[c]
              THEN /\ cam' = [cam EXCEPT ![c].streamRef = s, ![c].srcObject = s]
                   /\ calls' = (calls \ {call}) \cup {[call EXCEPT !.pc = "play"]}
              ELSE /\ cam' = [cam EXCEPT ![c].streamRef = s]
                   /\ calls' = calls \ {call}
    /\ event' = Ev("granted")
    /\ UNCHANGED <<err, started, mounted, toast, timers, appRest>>

\* getUserMedia rejects: permission denied, or no camera
Denied(call) ==
    /\ call \in calls
    /\ call.pc = "getUserMedia"
    /\ calls' = calls \ {call}
    /\ StartFailed(call.view)
    /\ event' = Ev("denied")
    /\ UNCHANGED <<cam, live, started, mounted, appRest>>

\* video.play() resolves
Played(call) ==
    /\ call \in calls
    /\ call.pc = "play"
    /\ calls' = calls \ {call}
    /\ cam' = SetRunning(call.view)
    /\ event' = Ev("played")
    /\ UNCHANGED <<err, live, started, mounted, toast, timers, appRest>>

\* video.play() rejects
PlayFailed(call) ==
    /\ call \in calls
    /\ call.pc = "play"
    /\ calls' = calls \ {call}
    /\ StartFailed(call.view)
    /\ event' = Ev("playFailed")
    /\ UNCHANGED <<cam, live, started, mounted, appRest>>

\* the Stop button
Stop(c) ==
    /\ mounted[c]
    /\ cam[c].running
    /\ Stopped(c)
    /\ event' = Ev("stopCamera")
    /\ UNCHANGED <<err, calls, started, mounted, toast, timers, appRest>>

\* the view is removed: CameraBox's effect cleanup calls stopCamera(), the App
\* has no cleanup; the refs of a removed view are null
Unmount(c) ==
    /\ mounted[c]
    /\ mounted' = [mounted EXCEPT ![c] = FALSE]
    /\ IF c = "CameraBox" THEN Stopped(c) ELSE UNCHANGED <<cam, live>>
    /\ event' = Ev("unmount")
    /\ UNCHANGED <<err, calls, started, toast, timers, appRest>>

(* ---------------------------- specifications --------------------------- *)

\* the App is constructed from what store content s holds: the useState
\* initialisers, the first render and the persist effect
Constructed(s) ==
    /\ history = LoadHistory(s)
    /\ crashed = ~RenderHistoryOK(history)
    /\ stored = IF crashed THEN s ELSE JSONstringify(history)
    /\ toast = Null
    /\ timers = 0
    /\ loading = FALSE
    /\ mood = ""
    /\ emoji = DefaultEmoji
    /\ conf = Num(0)
    /\ list = <<>>
    /\ probs = Null
    /\ text = ""
    /\ ops = <<>>
    /\ opCount = 0
    /\ clock = 0
    /\ event = Ev("init")
    /\ err = Null

\* the refs and the flag of a view whose camera is off
CameraOff == [streamRef |-> NoStream, srcObject |-> NoStream, running |-> FALSE]

\* no view has started its camera
CamerasOff ==
    /\ cam = [c \in Views |-> CameraOff]
    /\ live = {}
    /\ calls = {}
    /\ started = [c \in Views |-> 0]

\* view v is what the page shows (the App does not render CameraBox); an App
\* whose first render raised shows nothing
Showing(v) == mounted = [c \in Views |-> c = v /\ ~crashed]

\* the page shows the App, constructed from any content of the store, or a
\* CameraBox
Init ==
    \E v \in Views :
        /\ \E s \in (IF v = "App" THEN StoredContents ELSE {Missing}) : Constructed(s)
        /\ Showing(v)
        /\ CamerasOff

Texts == {"", "  ", "so happy"}

NextAnalysis ==
    \/ \E s \in Texts : TypeText(s)
    \/ analyzeText
    \/ \E chosen \in BOOLEAN : Upload(chosen)
    \/ \E ctx \in BOOLEAN : captureAndAnalyze(ctx)
    \/ \E i \in 1..MaxOps, f \in FrameLists : FramesDone(i, f)
    \/ \E i \in 1..MaxOps, o \in Outcomes : TextSettled(i, o)
    \/ \E i \in 1..MaxOps, o \in Outcomes : BatchSettled(i, o)
    \/ \E i \in 1..MaxOps, o \in Outcomes : SingleSettled(i, o)
    \/ ToastExpires

NextCamera(V) ==
    \/ \E c \in V : startCamera(c)
    \/ \E call \in calls : call.view \in V /\ Granted(call)
    \/ \E call \in calls : call.view \in V /\ Denied(call)
    \/ \E call \in calls : call.view \in V /\ Played(call)
    \/ \E call \in calls : call.view \in V /\ PlayFailed(call)
    \/ \E c \in V : Stop(c)
    \/ \E c \in V : Unmount(c)

Next == NextAnalysis \/ NextCamera(Views)

\* both views and the analysis together
Spec == Init /\ [][Next]_vars

\* the camera of either view, the store holding an empty list
InitCamera == Init /\ stored = Json(Arr(<<>>))
SpecCamera == InitCamera /\ [][NextCamera(Views) \/ ToastExpires]_vars

\* the App's camera as one start() that was granted and played leaves it
AppCameraOn ==
    /\ cam = [c \in Views |->
                IF c = "App"
                THEN [streamRef |-> Stream(c, 1), srcObject |-> Stream(c, 1),
                      running |-> TRUE]
                ELSE CameraOff]
    /\ live = {Stream("App", 1)}
    /\ calls = {}
    /\ started = [c \in Views |-> IF c = "App" THEN 1 ELSE 0]

\* the App constructed from a content of the store among S; the camera of an
\* App that rendered is on (a state SpecCamera reaches), so that the capture
\* button is offered
InitWithCamera(S) ==
    /\ \E s \in S : Constructed(s)
    /\ Showing("App")
    /\ IF crashed THEN CamerasOff ELSE AppCameraOn

\* the analysis calls of the App, the store empty
InitAnalysis == InitWithCamera({Missing})

\* the analysis calls of the App, from every content of the store
InitHistory == InitWithCamera(StoredContents)
SpecHistory == InitHistory /\ [][NextAnalysis]_vars

SpecAnalysis == InitAnalysis /\ [][NextAnalysis]_vars

(* ------------------------------- claims -------------------------------- *)

LastReq(op) == op.reqs[Len(op.reqs)]

\* the last step ended an analysis call of the given kind
EndedOp(kind) == event.name = "ended" /\ event.op.kind = kind

\* C1: in every reachable state, from any list loaded from the store and after
\* any number of recorded results, the history holds at most 8 rows (the claim
\* goes on: each recorded result is put first, the older rows keep their order)
C1_HistoryCapped == history.t = "array" => Len(history.v) <= HistoryCap

\* the second half of C1 alone: a step that records a result puts its row
\* first and keeps the older rows in their order, cut to 8
C1_NewestFirst ==
    [][clock' # clock =>
         /\ history'.v[1].when = clock'
         /\ history'.v = slice(<<history'.v[1]>> \o Spread(history), HistoryCap)]_vars

\* C2, as stated: for any list of frames, a batch request that fails in
\* transport is followed by exactly one request to /api/predict/image, which
\* carries the first frame only, and by no other request
C2_OneRetryAnyFrames ==
    (EndedOp("images") /\ event.op.reqs[1].kind = "transport") =>
        /\ Len(event.op.reqs) = 2
        /\ event.op.reqs[2].url = "/api/predict/image"
        /\ event.op.frames # <<>>
        /\ event.op.reqs[2].files = <<Head(event.op.frames)>>

\* an analyzeImagesBlobs call makes the batch request first, then at most the
\* one fallback request, of the first frame, after a batch request that failed
RequestsOf(op) ==
    /\ Len(op.reqs) \in 1..2
    /\ op.reqs[1].url = "/api/predict/images"
    /\ op.reqs[1].files = op.frames
    /\ Len(op.reqs) = 2 =>
         /\ op.frames # <<>>
         /\ op.reqs[2].url = "/api/predict/image"
         /\ op.reqs[2].files = <<Head(op.frames)>>
         /\ op.reqs[1].kind # "pending"
         /\ ~op.reqs[1].applied

\* C2, amended: with a list of frames that is not empty, a batch request that
\* fails in transport is followed by exactly one request to /api/predict/image,
\* of the first frame only, and by no other request; with an empty list no
\* retry is made and the call ends with the failure toast
C2_OneRetry ==
    /\ \A i \in 1..Len(ops) : ops[i].pc \in {"batch", "single"} => RequestsOf(ops[i])
    /\ \A i \in 1..Len(ops) :
         (ops[i].pc = "single") = (Len(ops[i].reqs) = 2 /\ ops[i].reqs[2].kind = "pending")
    /\ EndedOp("images") =>
         /\ RequestsOf(event.op)
         /\ event.op.reqs[1].kind = "transport" =>
              IF event.op.frames # <<>> THEN Len(event.op.reqs) = 2
              ELSE Len(event.op.reqs) = 1 /\ toast = Str("Failed to analyze image")

\* a call of several frames whose batch request failed in transport has ended
C2_Witness ==
    /\ EndedOp("images")
    /\ event.op.reqs[1].kind = "transport"
    /\ Len(event.op.frames) >= 2
    /\ Len(event.op.reqs) = 2

\* C3: a batch answer with a failure status and a readable body is not applied
\* to the results or the history, and the fallback request of the first frame
\* is made as after a transport failure
C3_ServerFailureFallsBack ==
    (EndedOp("images") /\ event.op.reqs[1].kind = "json" /\ ~event.op.reqs[1].ok) =>
        /\ ~event.op.reqs[1].applied
        /\ event.op.frames # <<>> => Len(event.op.reqs) = 2

\* the call that ended did not apply a result
Failed(op) == ~LastReq(op).applied

\* C4, as stated: when an analysis call ends in failure, a toast is shown and
\* the results on screen and the history are what they were when the call was
\* made
C4_FailureRestoresStart ==
    (event.name = "ended" /\ Failed(event.op)) =>
        /\ toast # Null
        /\ Shown = event.op.before

\* C4, amended: the step that ends an analysis call in failure shows a toast
\* and changes nothing of the results on screen and the history, and no
\* earlier step of a call changes them: they differ from what they were when
\* the call was made only by what other calls applied meanwhile
C4_FailureChangesNothing ==
    [][/\ (event'.name = "ended" /\ Failed(event'.op)) =>
            /\ toast' \in {Str("Failed to analyze text"), Str("Failed to analyze image")}
            /\ Shown' = Shown
       /\ event'.name \in {"upload", "analyzeText", "captureAndAnalyze", "callback"}
            => Shown' = Shown]_vars

\* a call ended in a transport failure with a result on screen
C4_Witness ==
    /\ event.name = "ended"
    /\ LastReq(event.op).kind = "transport"
    /\ ResultShown
    /\ toast # Null
    /\ Shown = event.op.before

\* C8: analyzeText with a text that is empty or only white space sends no
\* request and changes nothing of the state
C8_EmptyTextNoEffect ==
    [][(event'.name = "analyzeText" /\ trim(text) = "") =>
         UNCHANGED <<ops, opCount, appState>>]_vars

\* analyzeText has run on a text of white space only
C8_Witness ==
    /\ event.name = "analyzeText"
    /\ text = "  "
    /\ ops = <<>>
    /\ ~loading

InRange(p) == p.t = "num" /\ p.v \in 0..100

\* C9: every confidence percentage on screen, of the result and of the
\* history rows, lies in 0..100
C9_PercentInRange ==
    (mounted["App"] /\ history.t = "array") =>
        /\ ResultShown => InRange(ShownPercent)
        /\ \A i \in 1..Len(history.v) : InRange(RowPercent(i))

\* C10: whatever the store holds at load time, the App starts with a history
\* that is a list and its render does not fail
C10_LoadIsUsable == ~crashed /\ history.t = "array"

\* the view is gone and none of its start() calls is pending
TornDown(c) == ~mounted[c] /\ ~crashed /\ \A call \in calls : call.view # c

\* C5: once a view is removed and its pending calls have settled, no stream
\* it acquired has a live track
C5_TeardownReleases ==
    \A c \in Views : TornDown(c) => \A s \in live : s.view # c

\* C6: stopCamera() stops the held stream, clears the ref, detaches the
\* surface and clears the flag, and a second call changes nothing
C6_StopIdempotent ==
    \A c \in Views :
        LET s0 == CamOf(c)
            s1 == stopCamera(s0)
        IN  /\ s1.streamRef = NoStream
            /\ s0.streamRef \notin s1.live
            /\ s0.hasVideo => s1.srcObject = NoStream
            /\ ~s1.running
            /\ stopCamera(s1) = s1

\* Stop was clicked on a running camera: its stream is dead and released
C6_Witness ==
    /\ event.name = "stopCamera"
    /\ \E c \in Views :
         /\ started[c] = 1
         /\ cam[c] = CameraOff
         /\ Stream(c, 1) \notin live

\* the error message of view c is on screen
ErrorShown(c) == IF c = "CameraBox" THEN err # Null ELSE toast # Null

\* C7, as stated: when getUserMedia is denied, the error message is set, the
\* running flag is false and the view holds no stream
C7_DenialLeavesNothing ==
    [][\A call \in calls : (Denied(call) /\ mounted[call.view]) =>
         /\ ErrorShown(call.view)'
         /\ ~cam'[call.view].running
         /\ cam'[call.view].streamRef = NoStream]_vars

\* C7, amended: when getUserMedia is denied for a view on screen, the error
\* message is set and the denied call changes neither the running flag nor
\* the stream ref nor any stream: the flag is false and no stream is held
\* when that was so before
C7_DenialChangesNothing ==
    [][\A call \in calls : (Denied(call) /\ mounted[call.view]) =>
         /\ ErrorShown(call.view)'
         /\ cam' = cam
         /\ live' = live]_vars

\* CameraBox's only start() was denied
C7_Witness ==
    /\ event.name = "denied"
    /\ started["CameraBox"] = 1
    /\ err # Null
    /\ cam["CameraBox"] = CameraOff
    /\ live = {}

\* the step settles a request of analysis call i with the parsed body of o
ParsedSettled(i, o) ==
    /\ o.kind = "json"
    /\ mounted["App"]
    /\ TextSettled(i, o) \/ BatchSettled(i, o) \/ SingleSettled(i, o)

\* a field the response carries
Present(x) == x.t \notin {"undefined", "null"}

\* C11: for every parsed response updateResults does not raise and stores the
\* mood lowercased, the emoji of the response if present, else the table's,
\* else the default glyph, the confidence as a number that is 0 when the
\* field is absent or cannot be read as a number, and the playlist when it is
\* a list, else the empty list
C11_Normalizes ==
    [][\A i \in 1..MaxOps, o \in Outcomes : ParsedSettled(i, o) =>
         /\ clock' = clock + 1
         /\ o.j.mood.t = "str" => mood' = toLowerCase(o.j.mood.v)
         /\ ~Present(o.j.mood) => mood' = ""
         /\ emoji' = IF Present(o.j.emoji) THEN o.j.emoji
                     ELSE IF mood' \in EmojiLabels THEN EMOJI(mood')
                     ELSE DefaultEmoji
         /\ conf' = IF Number(o.j.confidence).t = "num" THEN Number(o.j.confidence)
                    ELSE Num(0)
         /\ list' = IF o.j.playlist.t = "array" THEN o.j.playlist.v ELSE <<>>]_vars

\* C11 without the two cases that fail: a parsed response whose mood is a
\* string or absent is applied, and its mood, emoji and playlist are stored as
\* stated; so is its confidence when it reads as a number or is absent
C11_NormalizesReadable ==
    [][\A i \in 1..MaxOps, o \in Outcomes :
         (ParsedSettled(i, o) /\ (o.j.mood.t = "str" \/ ~Present(o.j.mood))) =>
         /\ clock' = clock + 1
         /\ o.j.mood.t = "str" => mood' = toLowerCase(o.j.mood.v)
         /\ ~Present(o.j.mood) => mood' = ""
         /\ emoji' = IF Present(o.j.emoji) THEN o.j.emoji
                     ELSE IF mood' \in EmojiLabels THEN EMOJI(mood')
                     ELSE DefaultEmoji
         /\ (o.j.confidence.t = "num" \/ ~Present(o.j.confidence)) =>
              conf' = IF Present(o.j.confidence) THEN o.j.confidence ELSE Num(0)
         /\ list' = IF o.j.playlist.t = "array" THEN o.j.playlist.v ELSE <<>>]_vars

InFlight == \E i \in 1..Len(ops) : ops[i].pc \in {"text", "batch", "single"}

\* C13: in every interleaving of the analyses, the loading flag is true while
\* a request is in flight, and false once every analysis that was started has
\* ended
C13_LoadingWhileInFlight ==
    mounted["App"] =>
        /\ InFlight => loading
        /\ ops = <<>> => ~loading

\* the second half of C13 alone, and the first half for a call that is the
\* only one: the flag is false once every analysis has ended, and true while
\* the request of the only analysis under way is in flight
C13_LoadingAlone ==
    mounted["App"] =>
        /\ ops = <<>> => ~loading
        /\ (InFlight /\ Len(ops) = 1 /\ opCount = 1) => loading

\* no start() call of view c is awaiting getUserMedia or play()
NonePending(c) == \A call \in calls : call.view # c

\* C14: whenever no start() call of a view on screen is pending, the only
\* stream of the view with a live track is the one its stream ref holds, and
\* a stream is held only while the running flag is true
C14_OnlyHeldStreamLive ==
    \A c \in Views : (mounted[c] /\ NonePending(c)) =>
        /\ \A s \in live : s.view = c => s = cam[c].streamRef
        /\ cam[c].streamRef # NoStream => cam[c].running

\* the part of C14 that holds: a view that has clicked Start once has no live
\* stream but the one its stream ref holds
C14_OneStartHeld ==
    \A c \in Views : (mounted[c] /\ NonePending(c) /\ started[c] <= 1) =>
        \A s \in live : s.view = c => s = cam[c].streamRef

====
